---- MODULE Spec2Model ----
(***************************************************************************)
(* Model of galera_pk_discrepancy_checker.py: table discovery, the probe   *)
(* scan_table run by a ThreadPoolExecutor, the collection loop of main()   *)
(* that reduces the probe results, and the report rows built from them.    *)
(*                                                                         *)
(* Nodes (host:port pairs) and table names are numbered 1, 2, ...; the     *)
(* order of the numbers is the order of the names.  Python values are      *)
(* records tagged int / str / none; a str is a sequence of characters.     *)
(***************************************************************************)
EXTENDS Integers, Sequences, FiniteSets, TLC

VARIABLES
    hosts,           \* the host list given on the command line (a sequence of nodes)
    status,          \* node -> "up" | "down" | "flaky": how connecting to it behaves
    db,              \* node -> (table -> table description): the cluster's content
    pc,              \* position of main()
    hidx,            \* discovery loop: index of the next host to try
    tables,          \* result of get_tables (a sequence of table names)
    tasks,           \* the submitted futures, in submission order
    conns,           \* owners of the open connections: 0 is main, i is task i
    results,         \* main's dict results: table -> [pk, values]
    missing_column,  \* main's list missing_column
    missing_pk,      \* main's list missing_pk
    missing_record,  \* main's list missing_record
    report,          \* the rows added to the PrettyTable, in order
    tried,           \* the calls of get_connection made by table discovery, in order
    lock,            \* holder of the print lock: Free, 0 for main, i for task i
    cur              \* the future that the collection loop holds (0: none)

vars == <<hosts, status, db, pc, hidx, tables, tasks, conns, results,
          missing_column, missing_pk, missing_record, report, tried, lock, cur>>

----------------------------------------------------------------------------
(* Bounds of the model *)

\* integer primary keys of the enumerated table contents range over 0..MaxKey
MaxKey == 2
\* the enumerated table contents hold at most MaxRows rows
MaxRows == 2
\* the last instant of the model's clock; timestamps range over 0..MaxTs
MaxTs == 3

(* Program constants *)

max_workers == 10
\* the target date, and the length of INTERVAL 1 DAY, in units of the model's clock
target_date == 1
DAY == 2

----------------------------------------------------------------------------
(* Python values *)

\* threading.Lock(): the holder when nobody holds it
Free == -1

PyInt(n) == [kind |-> "int", n |-> n, s |-> <<>>]
PyStr(s) == [kind |-> "str", n |-> 0, s |-> s]
None == [kind |-> "none", n |-> 0, s |-> <<>>]

\* Python truthiness: None, 0 and "" are false
Truthy(v) ==
    CASE v.kind = "none" -> FALSE
      [] v.kind = "int" -> v.n # 0
      [] v.kind = "str" -> v.s # <<>>

Digit(d) ==
    CASE d = 0 -> "0" [] d = 1 -> "1" [] d = 2 -> "2" [] d = 3 -> "3"
      [] d = 4 -> "4" [] d = 5 -> "5" [] d = 6 -> "6" [] d = 7 -> "7"
      [] d = 8 -> "8" [] d = 9 -> "9"

RECURSIVE Decimal(_)
Decimal(n) == IF n < 10 THEN <<Digit(n)>> ELSE Decimal(n \div 10) \o <<Digit(n % 10)>>

\* str(v): the characters of the decimal numeral of an int, a str unchanged
str(v) ==
    CASE v.kind = "int" -> Decimal(v.n)
      [] v.kind = "str" -> v.s
      [] v.kind = "none" -> <<"N", "o", "n", "e">>

\* sub in s, for strings
Contains(sub, s) ==
    \E i \in 1..(Len(s) - Len(sub) + 1) : SubSeq(s, i, i + Len(sub) - 1) = sub

(* ANSI color codes; "ESC" stands for the character \033 *)
RED == <<"ESC", "[", "9", "1", "m">>
YELLOW == <<"ESC", "[", "9", "3", "m">>
RESET == <<"ESC", "[", "0", "m">>

(* The status strings of scan_table *)
CONN_ERR == PyStr(<<"C", "O", "N", "N", "_", "E", "R", "R">>)
NO_PK == PyStr(<<"N", "O", "_", "P", "K">>)
NO_COLUMN == PyStr(<<"N", "O", "_", "C", "O", "L", "U", "M", "N">>)
NO_RECORD == PyStr(<<"N", "O", "_", "R", "E", "C", "O", "R", "D">>)
ERR == PyStr(<<"E", "R", "R">>)

\* f"{YELLOW}N/A{RESET}"
NA == PyStr(YELLOW \o <<"N", "/", "A">> \o RESET)

----------------------------------------------------------------------------
(* The cluster: what the queries of a node answer *)

\* Names of primary-key columns
id == PyStr(<<"i", "d">>)
uid == PyStr(<<"u", "i", "d">>)

\* A table on a node: its primary-key column (None when it has none), whether
\* it has the filter column, its rows (primary key, filter-column value), and
\* the query that fails on it ("none", "pk", "col" or "query")
Table(pk, has_col, rows, fault) ==
    [pk |-> pk, has_col |-> has_col, rows |-> rows, fault |-> fault]

\* INFORMATION_SCHEMA holds no row for a table the node does not have
TableInfo(d, node, table) ==
    IF table \in DOMAIN d[node] THEN d[node][table] ELSE Table(None, FALSE, {}, "none")

RECURSIVE sorted(_)
sorted(S) ==
    IF S = {} THEN <<>>
    ELSE LET m == CHOOSE x \in S : \A y \in S : x <= y
         IN <<m>> \o sorted(S \ {m})

Range(q) == {q[i] : i \in DOMAIN q}

\* get_tables that lists the tables of every node
get_tables_union(d, node) == sorted(UNION {DOMAIN d[n] : n \in DOMAIN d})

\* SHOW TABLES on a node
get_tables(d, node) == sorted(DOMAIN d[node])

\* SELECT COLUMN_NAME ... COLUMN_KEY = 'PRI'; row[0] if row else None
get_primary_key(d, node, table) == TableInfo(d, node, table).pk

\* SELECT COLUMN_NAME ... COLUMN_NAME = column; fetchone() is not None
has_filter_column(d, node, table) == TableInfo(d, node, table).has_col

\* WHERE col >= %s AND col < %s + INTERVAL 1 DAY
InWindow(rows, date) == {r \in rows : r.ts >= date /\ r.ts < date + DAY}

\* ORDER BY col DESC LIMIT 1: the rows the server may return first
FirstRows(rows, date) ==
    {r \in InWindow(rows, date) : \A q \in InWindow(rows, date) : q.ts <= r.ts}

\* The values get_last_record may return: row[0] if row else None.  Rows with
\* equal filter-column values come in an order the server chooses.
get_last_record(rows, date) ==
    IF InWindow(rows, date) = {} THEN {None}
    ELSE {r.pk : r \in FirstRows(rows, date)}

----------------------------------------------------------------------------
(* The collection loop of main(): one result folded into the dicts and lists *)

\* list.append(x) guarded by "if x not in list"
AddOnce(list, x) == IF x \in Range(list) THEN list ELSE Append(list, x)

\* WithPk that stores the pk_col of every result, an empty one too
WithPk_overwrite(res, table, pk_col) ==
    (table :> [pk |-> pk_col,
               values |-> IF table \in DOMAIN res THEN res[table].values ELSE <<>>]) @@ res

\* results after lines 257-260: the entry is created on the first result of
\* the table, and a non-empty pk_col overwrites the pk held
WithPk(res, table, pk_col) ==
    LET r1 == IF table \in DOMAIN res THEN res
              ELSE (table :> [pk |-> pk_col, values |-> <<>>]) @@ res
    IN IF Truthy(pk_col) THEN [r1 EXCEPT ![table].pk = pk_col] ELSE r1

\* SetValue with the map replaced instead of updated
SetValue_replace(res, table, host, value) ==
    [res EXCEPT ![table].values = (host :> value)]

\* results[table]["values"][host] = value
SetValue(res, table, host, value) ==
    [res EXCEPT ![table].values = (host :> value) @@ res[table].values]

\* Reduce whose NO_PK branch appends to missing_column
Reduce_one_list(R, t) ==
    LET res == WithPk(R.results, t.table, t.pk_col)
    IN CASE t.value \in {NO_COLUMN, NO_PK} ->
              [R EXCEPT !.results = res,
                        !.missing_column = AddOnce(R.missing_column, t.table)]
         [] t.value = NO_RECORD ->
              [R EXCEPT !.results = SetValue(res, t.table, t.host, NA),
                        !.missing_record = AddOnce(R.missing_record, t.table)]
         [] OTHER ->
              [R EXCEPT !.results = SetValue(res, t.table, t.host, t.value)]

\* Reduce without the continue of the NO_COLUMN and NO_PK branches
Reduce_fallthrough(R, t) ==
    LET res == SetValue(WithPk(R.results, t.table, t.pk_col), t.table, t.host, t.value)
    IN CASE t.value = NO_COLUMN ->
              [R EXCEPT !.results = res,
                        !.missing_column = AddOnce(R.missing_column, t.table)]
         [] t.value = NO_PK ->
              [R EXCEPT !.results = res,
                        !.missing_pk = AddOnce(R.missing_pk, t.table)]
         [] t.value = NO_RECORD ->
              [R EXCEPT !.results = SetValue(res, t.table, t.host, NA),
                        !.missing_record = AddOnce(R.missing_record, t.table)]
         [] OTHER -> [R EXCEPT !.results = res]

\* The body of the loop over as_completed(tasks), lines 253-275, applied to the
\* state R = [results, missing_column, missing_pk, missing_record] and the
\* tuple t = [table, host, pk_col, value] that future.result() returned
Reduce(R, t) ==
    LET res == WithPk(R.results, t.table, t.pk_col)
    IN CASE t.value = NO_COLUMN ->
              [R EXCEPT !.results = res,
                        !.missing_column = AddOnce(R.missing_column, t.table)]
         [] t.value = NO_PK ->
              [R EXCEPT !.results = res,
                        !.missing_pk = AddOnce(R.missing_pk, t.table)]
         [] t.value = NO_RECORD ->
              [R EXCEPT !.results = SetValue(res, t.table, t.host, NA),
                        !.missing_record = AddOnce(R.missing_record, t.table)]
         [] OTHER ->
              [R EXCEPT !.results = SetValue(res, t.table, t.host, t.value)]

EmptyR ==
    [results |-> <<>>, missing_column |-> <<>>, missing_pk |-> <<>>,
     missing_record |-> <<>>]

----------------------------------------------------------------------------
(* The report rows, lines 280-302 *)

\* host_values: str(info["values"].get(host, N/A)) for the hosts in order
HostValues(info, hs) ==
    [i \in DOMAIN hs |->
        str(IF hs[i] \in DOMAIN info.values THEN info.values[hs[i]] ELSE NA)]

\* "N/A" not in v and "ERR" not in v
Clean(v) == ~Contains(<<"N", "/", "A">>, v) /\ ~Contains(<<"E", "R", "R">>, v)

\* Mismatch over all the cells, the N/A and ERR ones too
Mismatch_unfiltered(host_values) ==
    Cardinality({host_values[i] : i \in DOMAIN host_values}) > 1

\* mismatch = len(set(clean_values)) > 1
Mismatch(host_values) ==
    Cardinality({host_values[i] : i \in {j \in DOMAIN host_values : Clean(host_values[j])}}) > 1

\* The row of one table: its name, the pk held, and the cells after coloring
Row(res, hs, tname) ==
    LET hv == HostValues(res[tname], hs)
        mismatch == Mismatch(hv)
    IN [table |-> tname,
        pk |-> res[tname].pk,
        mismatch |-> mismatch,
        cells |-> [i \in DOMAIN hv |->
                      IF mismatch /\ Clean(hv[i]) THEN RED \o hv[i] \o RESET ELSE hv[i]]]

\* What main() prints from the state R: the rows of sorted(results.keys()) and
\* the three sorted summary lists
Report(R, hs) ==
    [rows |-> LET names == sorted(DOMAIN R.results)
              IN [i \in DOMAIN names |-> Row(R.results, hs, names[i])],
     missing_column |-> sorted(Range(R.missing_column)),
     missing_pk |-> sorted(Range(R.missing_pk)),
     missing_record |-> sorted(Range(R.missing_record))]

----------------------------------------------------------------------------
(* Initial states: the command line and the cluster the run meets *)

Nodes(n) == [i \in 1..n |-> i]

\* Every node holds the tables of T, table t on node n described by d[n][t]
Cluster(hs, st, d) ==
    /\ hosts = hs
    /\ status = st
    /\ db = d

Row1(k, ts) == [pk |-> k, ts |-> ts]

\* Table contents: at most MaxRows rows with distinct integer primary keys
RowSets ==
    {S \in SUBSET {Row1(PyInt(k), ts) : k \in 0..MaxKey, ts \in 0..MaxTs} :
        /\ Cardinality(S) <= MaxRows
        /\ \A r, q \in S : r.pk = q.pk => r = q}

BERRY == PyStr(<<"B", "E", "R", "R", "Y">>)
APPLE == PyStr(<<"A", "P", "P", "L", "E">>)

NoPkTable == Table(None, TRUE, {}, "none")
NoColumnTable == Table(id, FALSE, {}, "none")
EmptyTable == Table(id, TRUE, {Row1(PyInt(1), target_date + DAY)}, "none")
One == Table(id, TRUE, {Row1(PyInt(1), target_date)}, "none")
Two == Table(id, TRUE, {Row1(PyInt(1), target_date - 1), Row1(PyInt(2), target_date)}, "none")

\* Tables with a string primary key
Berry == Table(id, TRUE, {Row1(BERRY, target_date)}, "none")
Apple == Table(id, TRUE, {Row1(APPLE, target_date)}, "none")
Str1 == Table(id, TRUE, {Row1(PyStr(<<"1">>), target_date)}, "none")

\* The descriptions a table takes in the two-node scenarios
Variants ==
    { NoPkTable, NoColumnTable, EmptyTable, One, Two, Berry, Apple, Str1,
      Table(uid, TRUE, {Row1(PyInt(1), target_date)}, "none"),
      Table(id, TRUE, {Row1(PyInt(0), target_date)}, "none"),
      Table(id, TRUE, {Row1(ERR, target_date)}, "none"),
      Table(id, TRUE, {Row1(PyInt(1), target_date)}, "pk"),
      Table(id, TRUE, {Row1(PyInt(1), target_date)}, "col"),
      Table(id, TRUE, {Row1(PyInt(1), target_date)}, "query") }

\* One node, one table, every content of RowSets
InitRows ==
    \E S \in RowSets :
        Cluster(Nodes(1), [n \in {1} |-> "up"], [n \in {1} |-> (1 :> Table(id, TRUE, S, "none"))])

\* Two nodes, one table, every pair of descriptions
InitTwo ==
    \E v \in [{1, 2} -> Variants], st \in [{1, 2} -> {"up", "flaky"}] :
        Cluster(Nodes(2), st, [n \in {1, 2} |-> (1 :> v[n])])

\* Three nodes, one table
InitThree ==
    \E v \in [{1, 2, 3} -> {NoColumnTable, EmptyTable, One, Two, Berry, Apple, Str1}] :
        Cluster(Nodes(3), (1 :> "up") @@ (2 :> "flaky") @@ (3 :> "up"),
                [n \in {1, 2, 3} |-> (1 :> v[n])])

\* Two nodes, two tables, the second one missing on the second node or not
InitTables ==
    \E v1 \in [{1, 2} -> {One, Two}], v2 \in [{1, 2} -> {NoColumnTable, EmptyTable}],
       both \in BOOLEAN, st1 \in {"up", "down"} :
        Cluster(Nodes(2), (1 :> st1) @@ (2 :> "up"),
                [n \in {1, 2} |->
                    IF n = 2 /\ ~both THEN (1 :> v1[n])
                    ELSE (1 :> v1[n]) @@ (2 :> v2[n])])

\* No node answers
InitDown ==
    Cluster(Nodes(2), [n \in {1, 2} |-> "down"], [n \in {1, 2} |-> (1 :> One)])

\* More probes than workers: one node more than the executor has threads, and
\* one table, without primary key
PoolHosts == max_workers + 1

InitPool ==
    Cluster(Nodes(PoolHosts), [n \in 1..PoolHosts |-> "up"],
            [n \in 1..PoolHosts |-> (1 :> NoPkTable)])

\* main() before table discovery
Start ==
    /\ pc = "discover"
    /\ hidx = 1
    /\ tables = <<>>
    /\ tasks = <<>>
    /\ conns = {}
    /\ results = <<>>
    /\ missing_column = <<>>
    /\ missing_pk = <<>>
    /\ missing_record = <<>>
    /\ report = Report(EmptyR, <<>>)
    /\ tried = <<>>
    /\ lock = Free
    /\ cur = 0

Init == (InitRows \/ InitTwo \/ InitThree \/ InitTables \/ InitDown) /\ Start

\* The same scenarios, and the one with more probes than workers
InitSaturated == (InitPool /\ Start) \/ Init

----------------------------------------------------------------------------
(* get_connection *)

\* pymysql.connect may return a connection / may raise (and None is returned)
CanConnect(node) == status[node] \in {"up", "flaky"}
CanFail(node) == status[node] \in {"down", "flaky"}

\* conn.close()
Close(cs, owner) == cs \ {owner}

\* One call of get_connection: the node, and whether a connection came back
Attempt(node, ok) == [node |-> node, ok |-> ok]

----------------------------------------------------------------------------
(* main(): table discovery, lines 227-237 *)

\* get_connection succeeds for hosts[hidx]: break
DiscoverConnected ==
    /\ pc = "discover"
    /\ hidx <= Len(hosts)
    /\ CanConnect(hosts[hidx])
    /\ conns' = conns \cup {0}
    /\ pc' = "get_tables"
    /\ tried' = Append(tried, Attempt(hosts[hidx], TRUE))
    /\ UNCHANGED <<lock, cur, hosts, status, db, hidx, tables, tasks, results,
                   missing_column, missing_pk, missing_record, report>>

\* get_connection returns None for hosts[hidx]: the next host is tried
DiscoverFailed ==
    /\ pc = "discover"
    /\ hidx <= Len(hosts)
    /\ CanFail(hosts[hidx])
    /\ hidx' = hidx + 1
    /\ tried' = Append(tried, Attempt(hosts[hidx], FALSE))
    /\ UNCHANGED <<lock, cur, hosts, status, db, pc, tables, tasks, conns, results,
                   missing_column, missing_pk, missing_record, report>>

\* if not conn: sys.exit(1)
DiscoverFatal ==
    /\ pc = "discover"
    /\ hidx > Len(hosts)
    /\ pc' = "fatal"
    /\ UNCHANGED <<lock, cur, tried, hosts, status, db, hidx, tables, tasks, conns, results,
                   missing_column, missing_pk, missing_record, report>>

\* tables = get_tables(conn); conn.close(); the executor is entered
GetTables ==
    /\ pc = "get_tables"
    /\ tables' = get_tables(db, hosts[hidx])
    /\ conns' = Close(conns, 0)
    /\ pc' = IF Len(hosts) * Len(tables') = 0 THEN "collect" ELSE "submit"
    /\ UNCHANGED <<lock, cur, tried, hosts, status, db, hidx, tasks, results,
                   missing_column, missing_pk, missing_record, report>>

----------------------------------------------------------------------------
(* main(): executor.submit for every host and every table, lines 246-250 *)

\* The k-th submission of "for host in hosts: for table in tables"
TaskHost(k) == hosts[((k - 1) \div Len(tables)) + 1]
TaskTable(k) == tables[((k - 1) % Len(tables)) + 1]

NewTask(k) ==
    [table |-> TaskTable(k), host |-> TaskHost(k), st |-> "queued",
     pk_col |-> None, last_id |-> None, value |-> None, consumed |-> FALSE]

Submit ==
    /\ pc = "submit"
    /\ tasks' = Append(tasks, NewTask(Len(tasks) + 1))
    /\ pc' = IF Len(tasks') = Len(hosts) * Len(tables) THEN "collect" ELSE "submit"
    /\ UNCHANGED <<lock, cur, tried, hosts, status, db, hidx, tables, conns, results,
                   missing_column, missing_pk, missing_record, report>>

----------------------------------------------------------------------------
(* The worker threads: scan_table, lines 182-204 *)

Printing == {"warn_conn", "print_conn", "warn_query", "print_query"}
Running(ts) == {i \in DOMAIN ts : ts[i].st \in {"get_primary_key", "has_filter_column", "get_last_record"} \cup Printing}
Finished(ts) == {i \in DOMAIN ts : ts[i].st \in {"done", "raised"}}

\* WorkerFree with the bound of the thread count off by one
WorkerFree_offbyone(ts) == Cardinality(Running(ts)) <= max_workers

\* A worker thread is free to take a work item: the executor starts at most
\* max_workers threads, each running one item at a time
WorkerFree(ts) == Cardinality(Running(ts)) < max_workers

\* The work queue is first in, first out
NextQueued(ts, i) == ts[i].st = "queued" /\ \A j \in 1..(i - 1) : ts[j].st # "queued"

\* return (table, host, pk_col, value)
Return(t, pk_col, value) == [t EXCEPT !.st = "done", !.pk_col = pk_col, !.value = value]

\* A worker takes item i and get_connection returns a connection
Connected(i) ==
    /\ NextQueued(tasks, i)
    /\ WorkerFree(tasks)
    /\ CanConnect(tasks[i].host)
    /\ conns' = conns \cup {i}
    /\ tasks' = [tasks EXCEPT ![i].st = "get_primary_key"]
    /\ UNCHANGED <<lock, cur, tried, hosts, status, db, pc, hidx, tables, results,
                   missing_column, missing_pk, missing_record, report>>

\* A worker takes item i and get_connection returns None: CONN_ERR
ConnectFailed(i) ==
    /\ NextQueued(tasks, i)
    /\ WorkerFree(tasks)
    /\ CanFail(tasks[i].host)
    /\ tasks' = [tasks EXCEPT ![i] = Return(@, None, CONN_ERR)]
    /\ UNCHANGED <<lock, cur, tried, hosts, status, db, pc, hidx, tables, conns, results,
                   missing_column, missing_pk, missing_record, report>>

\* What scan_table does once the connection is held, one query at a time; the
\* finally clause closes the connection when the function returns or raises
AfterPrimaryKey(t, info) ==
    IF info.fault = "pk" THEN [t EXCEPT !.st = "raised"]
    ELSE IF ~Truthy(info.pk) THEN Return(t, None, NO_PK)
    ELSE [t EXCEPT !.st = "has_filter_column", !.pk_col = info.pk]

AfterFilterColumn(t, info) ==
    IF info.fault = "col" THEN [t EXCEPT !.st = "raised"]
    ELSE IF ~info.has_col THEN Return(t, t.pk_col, NO_COLUMN)
    ELSE [t EXCEPT !.st = "get_last_record"]

\* last_id if last_id else "NO_RECORD"; except Exception: "ERR"
AfterLastRecord(t, info, last_id) ==
    IF info.fault = "query" THEN Return(t, t.pk_col, ERR)
    ELSE Return([t EXCEPT !.last_id = last_id], t.pk_col,
                IF Truthy(last_id) THEN last_id ELSE NO_RECORD)

\* Finally with conn.close() on the returning paths only
Finally_returns(cs, i, t) == IF t.st = "done" THEN Close(cs, i) ELSE cs

\* The connections after task i moved to t: closed by finally once it is over
Finally(cs, i, t) == IF t.st \in {"done", "raised"} THEN Close(cs, i) ELSE cs

PrimaryKey(i) ==
    /\ i \in DOMAIN tasks
    /\ tasks[i].st = "get_primary_key"
    /\ LET t == AfterPrimaryKey(tasks[i], TableInfo(db, tasks[i].host, tasks[i].table))
       IN /\ tasks' = [tasks EXCEPT ![i] = t]
          /\ conns' = Finally(conns, i, t)
    /\ UNCHANGED <<lock, cur, tried, hosts, status, db, pc, hidx, tables, results,
                   missing_column, missing_pk, missing_record, report>>

FilterColumn(i) ==
    /\ i \in DOMAIN tasks
    /\ tasks[i].st = "has_filter_column"
    /\ LET t == AfterFilterColumn(tasks[i], TableInfo(db, tasks[i].host, tasks[i].table))
       IN /\ tasks' = [tasks EXCEPT ![i] = t]
          /\ conns' = Finally(conns, i, t)
    /\ UNCHANGED <<lock, cur, tried, hosts, status, db, pc, hidx, tables, results,
                   missing_column, missing_pk, missing_record, report>>

LastRecord(i) ==
    /\ i \in DOMAIN tasks
    /\ tasks[i].st = "get_last_record"
    /\ LET info == TableInfo(db, tasks[i].host, tasks[i].table)
       IN \E last_id \in get_last_record(info.rows, target_date) :
            LET t == AfterLastRecord(tasks[i], info, last_id)
            IN /\ tasks' = [tasks EXCEPT ![i] = t]
               /\ conns' = Finally(conns, i, t)
    /\ UNCHANGED <<lock, cur, tried, hosts, status, db, pc, hidx, tables, results,
                   missing_column, missing_pk, missing_record, report>>

----------------------------------------------------------------------------
(* main(): the loop over as_completed(tasks), lines 252-275, and the report *)

R == [results |-> results, missing_column |-> missing_column,
      missing_pk |-> missing_pk, missing_record |-> missing_record]

Tuple(t) == [table |-> t.table, host |-> t.host, pk_col |-> t.pk_col, value |-> t.value]

\* as_completed yields a finished future; its result is folded in
Collect(i) ==
    /\ pc = "collect"
    /\ i \in DOMAIN tasks
    /\ tasks[i].st = "done"
    /\ ~tasks[i].consumed
    /\ LET N == Reduce(R, Tuple(tasks[i]))
       IN /\ results' = N.results
          /\ missing_column' = N.missing_column
          /\ missing_pk' = N.missing_pk
          /\ missing_record' = N.missing_record
    /\ tasks' = [tasks EXCEPT ![i].consumed = TRUE]
    /\ UNCHANGED <<lock, cur, tried, hosts, status, db, pc, hidx, tables, conns, report>>

\* as_completed yields a future whose call raised: future.result() raises in
\* main(), and the with block starts to wait for the executor to shut down
CollectRaise(i) ==
    /\ pc = "collect"
    /\ i \in DOMAIN tasks
    /\ tasks[i].st = "raised"
    /\ ~tasks[i].consumed
    /\ tasks' = [tasks EXCEPT ![i].consumed = TRUE]
    /\ pc' = "unwind"
    /\ UNCHANGED <<lock, cur, tried, hosts, status, db, hidx, tables, conns, results,
                   missing_column, missing_pk, missing_record, report>>

\* shutdown(wait=True) returns once every work item has run; the exception
\* then leaves main()
Unwind ==
    /\ pc = "unwind"
    /\ Finished(tasks) = DOMAIN tasks
    /\ pc' = "crashed"
    /\ UNCHANGED <<lock, cur, tried, hosts, status, db, hidx, tables, tasks, conns, results,
                   missing_column, missing_pk, missing_record, report>>

\* The rows and the summary printed without the loop having consumed every future
PrintReport_early ==
    /\ pc = "collect"
    /\ report' = Report(R, hosts)
    /\ pc' = "done"
    /\ UNCHANGED <<lock, cur, tried, hosts, status, db, hidx, tables, tasks, conns, results,
                   missing_column, missing_pk, missing_record>>

\* The loop has consumed every future: the rows and the summary are printed
PrintReport ==
    /\ pc = "collect"
    /\ \A i \in DOMAIN tasks : tasks[i].consumed
    /\ Len(tasks) = Len(hosts) * Len(tables)
    /\ report' = Report(R, hosts)
    /\ pc' = "done"
    /\ UNCHANGED <<lock, cur, tried, hosts, status, db, hidx, tables, tasks, conns, results,
                   missing_column, missing_pk, missing_record>>

----------------------------------------------------------------------------
Next ==
    \/ DiscoverConnected
    \/ DiscoverFailed
    \/ DiscoverFatal
    \/ GetTables
    \/ Submit
    \/ \E i \in DOMAIN tasks : Connected(i)
    \/ \E i \in DOMAIN tasks : ConnectFailed(i)
    \/ \E i \in DOMAIN tasks : PrimaryKey(i)
    \/ \E i \in DOMAIN tasks : FilterColumn(i)
    \/ \E i \in DOMAIN tasks : LastRecord(i)
    \/ \E i \in DOMAIN tasks : Collect(i)
    \/ \E i \in DOMAIN tasks : CollectRaise(i)
    \/ Unwind
    \/ PrintReport

Spec == Init /\ [][Next]_vars

SpecSaturated == InitSaturated /\ [][Next]_vars

----------------------------------------------------------------------------
(* The print lock: every "with lock: print(...)" as an acquisition and a   *)
(* release, lines 130-131, 199-200 and 254-255.  The steps below replace   *)
(* the steps of Next that print; the other steps of Next print nothing.    *)

\* with lock: the thread th enters once nobody holds the lock
Acquire(th) == lock = Free /\ lock' = th

\* The end of a with block that leaves the lock with its holder
Release_kept(th) == lock = th /\ lock' = lock

\* The end of the with block: th gives the lock back
Release(th) == lock = th /\ lock' = Free

\* Table discovery: pymysql.connect raised for hosts[hidx], the except clause
\* of get_connection is entered
DiscoverRefused ==
    /\ pc = "discover"
    /\ hidx <= Len(hosts)
    /\ CanFail(hosts[hidx])
    /\ pc' = "discover_warn"
    /\ tried' = Append(tried, Attempt(hosts[hidx], FALSE))
    /\ UNCHANGED <<lock, cur, hosts, status, db, hidx, tables, tasks, conns, results,
                   missing_column, missing_pk, missing_record, report>>

DiscoverWarnLock ==
    /\ pc = "discover_warn"
    /\ Acquire(0)
    /\ pc' = "discover_print"
    /\ UNCHANGED <<cur, tried, hosts, status, db, hidx, tables, tasks, conns, results,
                   missing_column, missing_pk, missing_record, report>>

\* The warning is printed, the lock released, None returned: the next host
DiscoverWarnPrinted ==
    /\ pc = "discover_print"
    /\ Release(0)
    /\ hidx' = hidx + 1
    /\ pc' = "discover"
    /\ UNCHANGED <<cur, tried, hosts, status, db, tables, tasks, conns, results,
                   missing_column, missing_pk, missing_record, report>>

\* A worker takes item i and pymysql.connect raises
ConnectRefused(i) ==
    /\ NextQueued(tasks, i)
    /\ WorkerFree(tasks)
    /\ CanFail(tasks[i].host)
    /\ tasks' = [tasks EXCEPT ![i].st = "warn_conn"]
    /\ UNCHANGED <<lock, cur, tried, hosts, status, db, pc, hidx, tables, conns, results,
                   missing_column, missing_pk, missing_record, report>>

ConnWarnLock(i) ==
    /\ i \in DOMAIN tasks
    /\ tasks[i].st = "warn_conn"
    /\ Acquire(i)
    /\ tasks' = [tasks EXCEPT ![i].st = "print_conn"]
    /\ UNCHANGED <<cur, tried, hosts, status, db, pc, hidx, tables, conns, results,
                   missing_column, missing_pk, missing_record, report>>

\* The warning is printed, the lock released, None returned: CONN_ERR
ConnWarnPrinted(i) ==
    /\ i \in DOMAIN tasks
    /\ tasks[i].st = "print_conn"
    /\ Release(i)
    /\ tasks' = [tasks EXCEPT ![i] = Return(@, None, CONN_ERR)]
    /\ UNCHANGED <<cur, tried, hosts, status, db, pc, hidx, tables, conns, results,
                   missing_column, missing_pk, missing_record, report>>

\* get_last_record returns
LastRecordReturned(i) ==
    /\ i \in DOMAIN tasks
    /\ TableInfo(db, tasks[i].host, tasks[i].table).fault # "query"
    /\ LastRecord(i)

\* get_last_record raises: the except clause of scan_table is entered
QueryRaised(i) ==
    /\ i \in DOMAIN tasks
    /\ tasks[i].st = "get_last_record"
    /\ TableInfo(db, tasks[i].host, tasks[i].table).fault = "query"
    /\ tasks' = [tasks EXCEPT ![i].st = "warn_query"]
    /\ UNCHANGED <<lock, cur, tried, hosts, status, db, pc, hidx, tables, conns, results,
                   missing_column, missing_pk, missing_record, report>>

QueryWarnLock(i) ==
    /\ i \in DOMAIN tasks
    /\ tasks[i].st = "warn_query"
    /\ Acquire(i)
    /\ tasks' = [tasks EXCEPT ![i].st = "print_query"]
    /\ UNCHANGED <<cur, tried, hosts, status, db, pc, hidx, tables, conns, results,
                   missing_column, missing_pk, missing_record, report>>

\* The warning is printed, the lock released, ERR returned; finally closes
QueryWarnPrinted(i) ==
    /\ i \in DOMAIN tasks
    /\ tasks[i].st = "print_query"
    /\ Release(i)
    /\ LET t == Return(tasks[i], tasks[i].pk_col, ERR)
       IN /\ tasks' = [tasks EXCEPT ![i] = t]
          /\ conns' = Finally(conns, i, t)
    /\ UNCHANGED <<cur, tried, hosts, status, db, pc, hidx, tables, results,
                   missing_column, missing_pk, missing_record, report>>

\* as_completed yields a finished future and future.result() returns
Yielded(i) ==
    /\ pc = "collect"
    /\ i \in DOMAIN tasks
    /\ tasks[i].st = "done"
    /\ ~tasks[i].consumed
    /\ cur' = i
    /\ pc' = "scanned_warn"
    /\ UNCHANGED <<lock, tried, hosts, status, db, hidx, tables, tasks, conns, results,
                   missing_column, missing_pk, missing_record, report>>

ScannedLock ==
    /\ pc = "scanned_warn"
    /\ Acquire(0)
    /\ pc' = "scanned_print"
    /\ UNCHANGED <<cur, tried, hosts, status, db, hidx, tables, tasks, conns, results,
                   missing_column, missing_pk, missing_record, report>>

\* The line is printed, the lock released, and the result is folded in
ScannedPrinted ==
    /\ pc = "scanned_print"
    /\ Release(0)
    /\ LET N == Reduce(R, Tuple(tasks[cur]))
       IN /\ results' = N.results
          /\ missing_column' = N.missing_column
          /\ missing_pk' = N.missing_pk
          /\ missing_record' = N.missing_record
    /\ tasks' = [tasks EXCEPT ![cur].consumed = TRUE]
    /\ cur' = 0
    /\ pc' = "collect"
    /\ UNCHANGED <<tried, hosts, status, db, hidx, tables, conns, report>>

\* Two nodes and one table: every way of connecting, and the outcomes of
\* scan_table that print and that do not
InitLock ==
    /\ \E v \in [{1, 2} -> {One, NoPkTable,
                            Table(id, TRUE, {Row1(PyInt(1), target_date)}, "pk"),
                            Table(id, TRUE, {Row1(PyInt(1), target_date)}, "query")}],
          st \in [{1, 2} -> {"up", "down", "flaky"}] :
            Cluster(Nodes(2), st, [n \in {1, 2} |-> (1 :> v[n])])
    /\ Start

NextLock ==
    \/ DiscoverConnected
    \/ DiscoverRefused
    \/ DiscoverWarnLock
    \/ DiscoverWarnPrinted
    \/ DiscoverFatal
    \/ GetTables
    \/ Submit
    \/ \E i \in DOMAIN tasks : Connected(i)
    \/ \E i \in DOMAIN tasks : ConnectRefused(i)
    \/ \E i \in DOMAIN tasks : ConnWarnLock(i)
    \/ \E i \in DOMAIN tasks : ConnWarnPrinted(i)
    \/ \E i \in DOMAIN tasks : PrimaryKey(i)
    \/ \E i \in DOMAIN tasks : FilterColumn(i)
    \/ \E i \in DOMAIN tasks : LastRecordReturned(i)
    \/ \E i \in DOMAIN tasks : QueryRaised(i)
    \/ \E i \in DOMAIN tasks : QueryWarnLock(i)
    \/ \E i \in DOMAIN tasks : QueryWarnPrinted(i)
    \/ \E i \in DOMAIN tasks : Yielded(i)
    \/ ScannedLock
    \/ ScannedPrinted
    \/ \E i \in DOMAIN tasks : CollectRaise(i)
    \/ Unwind
    \/ PrintReport

SpecLock == InitLock /\ [][NextLock]_vars

----------------------------------------------------------------------------
(* Vocabulary of the properties *)

\* The collection loop has consumed the result of every probe
AllConsumed ==
    /\ pc \in {"collect", "done"}
    /\ Len(tasks) = Len(hosts) * Len(tables)
    /\ \A i \in DOMAIN tasks : tasks[i].st = "done" /\ tasks[i].consumed

\* The probe of table t on node n, and the outcome it returned
TaskOf(t, n) == CHOOSE i \in DOMAIN tasks : tasks[i].table = t /\ tasks[i].host = n
Outcome(t, n) == tasks[TaskOf(t, n)].value

Statuses == {CONN_ERR, NO_PK, NO_COLUMN, NO_RECORD, ERR}
IsValue(v) == v \notin Statuses

\* The fetched values of table t over the nodes
ValuesOf(t) == {Outcome(t, n) : n \in {m \in Range(hosts) : IsValue(Outcome(t, m))}}

\* The fold of the same results in submission order
InOrder[k \in 0..Len(tasks)] ==
    IF k = 0 THEN EmptyR ELSE Reduce(InOrder[k - 1], Tuple(tasks[k]))

\* The primary-key names that the nodes report for table t
PkNames(t) ==
    {tasks[i].pk_col : i \in {j \in DOMAIN tasks : tasks[j].table = t /\ Truthy(tasks[j].pk_col)}}

----------------------------------------------------------------------------
(* C1 *)

----------------------------------------------------------------------------
(* C2 *)

\* C2 as stated: the mismatch verdict of a table's row is true exactly when
\* the nodes whose outcome is a fetched value carry two distinct values.
C2_MismatchIffDistinctValues ==
    pc = "done" =>
        \A k \in DOMAIN report.rows :
            report.rows[k].mismatch <=> Cardinality(ValuesOf(report.rows[k].table)) >= 2

----------------------------------------------------------------------------
(* C3 *)

\* C3 as stated: once every result is consumed, a table is in missing_record
\* exactly when the outcome of every node for it is NO_RECORD.
C3_NoRecordIffEveryNode ==
    AllConsumed =>
        \A t \in Range(tables) :
            t \in Range(missing_record) <=> \A n \in Range(hosts) : Outcome(t, n) = NO_RECORD

----------------------------------------------------------------------------
(* C4 *)

\* C4 as stated: the report printed after any arrival order is the report of
\* the same results folded in submission order, also when nodes report
\* different primary-key names for a table.
C4_AsStated ==
    pc = "done" => report = Report(InOrder[Len(tasks)], hosts)

\* C4, amended: for any arrival order the node-to-value maps, the cells and
\* mismatch verdicts of the rows and the three summary lists are those of the
\* fold in submission order; the primary-key name of a table is too when the
\* nodes that report a name for it report the same one.
C4_OrderInsensitive ==
    pc = "done" =>
        LET F == InOrder[Len(tasks)]
            canon == Report(F, hosts)
        IN /\ DOMAIN results = DOMAIN F.results
           /\ \A t \in DOMAIN results :
                /\ results[t].values = F.results[t].values
                /\ Cardinality(PkNames(t)) <= 1 => results[t].pk = F.results[t].pk
           /\ report.missing_column = canon.missing_column
           /\ report.missing_pk = canon.missing_pk
           /\ report.missing_record = canon.missing_record
           /\ DOMAIN report.rows = DOMAIN canon.rows
           /\ \A k \in DOMAIN report.rows :
                /\ report.rows[k].table = canon.rows[k].table
                /\ report.rows[k].cells = canon.rows[k].cells
                /\ report.rows[k].mismatch = canon.rows[k].mismatch
                /\ Cardinality(PkNames(report.rows[k].table)) <= 1 =>
                     report.rows[k].pk = canon.rows[k].pk

\* A report printed after the results arrived in another order than they were
\* submitted in: two nodes name the primary key differently, both have their
\* entry in the map, and the name held is not the one of the fold in order
C4_Witness ==
    /\ pc = "done"
    /\ \E t \in DOMAIN results :
        /\ Cardinality(DOMAIN results[t].values) >= 2
        /\ Cardinality(PkNames(t)) = 2
        /\ results[t].pk # InOrder[Len(tasks)].results[t].pk

----------------------------------------------------------------------------
(* C5 *)

\* C5 as stated: no call of scan_table ends by raising; every one that is
\* over has returned a tuple whose outcome is a status or a fetched value.
C5_ScanTableNeverRaises ==
    \A i \in DOMAIN tasks : tasks[i].st # "raised"

----------------------------------------------------------------------------
(* C6 *)

\* C6 as stated: once table discovery has succeeded, the run ends only with
\* the report printed, one row for every discovered table.
C6_ReportAlwaysEmitted ==
    (pc \notin {"discover", "fatal"} /\ ~ENABLED Next) =>
        /\ pc = "done"
        /\ {report.rows[k].table : k \in DOMAIN report.rows} = Range(tables)

----------------------------------------------------------------------------
(* C7 *)

\* The probes whose windowed query returned
Queried == {i \in DOMAIN tasks : tasks[i].st = "done" /\ tasks[i].value \notin {CONN_ERR, NO_PK, NO_COLUMN, ERR}}

RowsOf(i) == TableInfo(db, tasks[i].host, tasks[i].table).rows

IntRows(rows) == \A r \in rows : r.pk.kind = "int"

MaxKeyOf(rows) == CHOOSE k \in {r.pk.n : r \in rows} : \A r \in rows : r.pk.n <= k

\* C7 as stated: when a row lies in the window, get_last_record returns the
\* largest primary key among the rows in the window.
C7_LastRecordIsMaxKey ==
    \A i \in Queried :
        LET W == InWindow(RowsOf(i), target_date)
        IN (W # {} /\ IntRows(W)) => tasks[i].last_id = PyInt(MaxKeyOf(W))

----------------------------------------------------------------------------
(* C8 *)

\* C8 as stated: after the connection and both metadata checks succeeded, the
\* outcome is NO_RECORD exactly when no row lies in the window, and otherwise
\* it is the primary key of a row in the window, 0 or "" included.
C8_NoRecordIffNoRow ==
    \A i \in Queried :
        LET W == InWindow(RowsOf(i), target_date)
        IN /\ tasks[i].value = NO_RECORD <=> W = {}
           /\ W # {} => tasks[i].value \in {r.pk : r \in W}

----------------------------------------------------------------------------
(* C9 *)

\* C9: a probe that has returned or raised holds no connection, a connection
\* is held only by a probe past get_connection, and once every probe is over
\* no probe connection is open.
C9_ConnectionsClosed ==
    /\ \A i \in DOMAIN tasks : i \in conns <=> i \in Running(tasks)
    /\ conns \subseteq {0} \cup DOMAIN tasks
    /\ (Finished(tasks) = DOMAIN tasks /\ pc \notin {"get_tables"}) => conns = {}

\* Every probe is over: one raised in a metadata query after connecting, one
\* returned a fetched value, and no connection is open
C9_Witness ==
    /\ tasks # <<>>
    /\ Finished(tasks) = DOMAIN tasks
    /\ Len(tasks) = Len(hosts) * Len(tables)
    /\ \E i, j \in DOMAIN tasks : tasks[i].st = "raised" /\ IsValue(tasks[j].value) /\ tasks[j].st = "done"
    /\ conns = {}

----------------------------------------------------------------------------
(* C10 *)

\* C10: at most 10 probes execute at once, at most 10 connections are open at
\* once, and the discovery connection is closed before a probe is submitted.
C10_AtMostTenConnections ==
    /\ Cardinality(Running(tasks)) <= 10
    /\ Cardinality(conns) <= 10
    /\ tasks # <<>> => 0 \notin conns

\* Ten probes hold a connection while an eleventh waits in the queue
C10_Witness ==
    /\ Cardinality(conns) = 10
    /\ Cardinality(Running(tasks)) = 10
    /\ \E i \in DOMAIN tasks : tasks[i].st = "queued"

----------------------------------------------------------------------------
(* C11 *)

\* C11: table discovery calls get_connection for the hosts in the order of the
\* host list; every call before the last one failed, a call that connects is
\* the last one, and from then on the table universe, which every probe takes
\* its table from, is the table list of that one node.
C11_FirstReachableNode ==
    /\ Len(tried) <= Len(hosts)
    /\ \A j \in DOMAIN tried :
        /\ tried[j].node = hosts[j]
        /\ j < Len(tried) => ~tried[j].ok
    /\ pc = "discover" => \A j \in DOMAIN tried : ~tried[j].ok
    /\ pc \notin {"discover", "fatal"} => tried # <<>> /\ tried[Len(tried)].ok
    /\ pc \notin {"discover", "fatal", "get_tables"} =>
        /\ Range(tables) = DOMAIN db[tried[Len(tried)].node]
        /\ \A i \in DOMAIN tasks : tasks[i].table \in DOMAIN db[tried[Len(tried)].node]

\* The run is over after the first node failed and the second connected, the
\* first node holding a table that the second does not have
C11_Witness ==
    /\ pc = "done"
    /\ Len(tried) = 2
    /\ Len(hosts) = 2
    /\ DOMAIN db[tried[1].node] # DOMAIN db[tried[2].node]
    /\ tasks # <<>>

----------------------------------------------------------------------------
(* C12 *)

\* Table discovery called get_connection for every host and every call failed
NoNodeReachable ==
    /\ Len(tried) = Len(hosts)
    /\ \A j \in DOMAIN tried : ~tried[j].ok

\* main() ended with a non-zero exit status: sys.exit(1), or an exception
\* that left main()
Aborted == pc \in {"fatal", "crashed"}

\* C12 as stated: the run aborts with a non-zero exit exactly when no node can
\* be connected to during table discovery, and then no probe was dispatched
\* and no report printed; a run whose discovery connected never aborts.
C12_AbortIffNoNodeReachable ==
    /\ Aborted => NoNodeReachable /\ tasks = <<>> /\ report = Report(EmptyR, <<>>)
    /\ (NoNodeReachable /\ ~ENABLED Next) => pc = "fatal"

----------------------------------------------------------------------------
(* C13 *)

\* The cell was colored red
Flagged(cell) == Len(cell) >= Len(RED) /\ SubSeq(cell, 1, Len(RED)) = RED

\* The index of node n in the host list
HostIndex(n) == CHOOSE i \in DOMAIN hosts : hosts[i] = n

\* The texts of the fetched values of table t that the comparison keeps
CleanTexts(t) ==
    {str(Outcome(t, n)) :
        n \in {m \in Range(hosts) : IsValue(Outcome(t, m)) /\ Clean(str(Outcome(t, m)))}}

----------------------------------------------------------------------------
(* C14 *)

\* C14: no step takes results[T]["pk"] from a primary-key name back to None
\* (or removes the entry of T), whatever the result consumed carries.
C14_PkNeverReset ==
    [][\A t \in DOMAIN results :
          Truthy(results[t].pk) => (t \in DOMAIN results' /\ Truthy(results'[t].pk))]_vars

\* results holds a primary-key name for a table, learned from one node, and the
\* collection loop is about to consume a result of the same table that carries
\* none (CONN_ERR or NO_PK of another node)
C14_Witness ==
    /\ pc = "collect"
    /\ \E i, j \in DOMAIN tasks :
        /\ tasks[i].table = tasks[j].table
        /\ tasks[i].consumed /\ Truthy(tasks[i].pk_col)
        /\ tasks[i].table \in DOMAIN results /\ Truthy(results[tasks[i].table].pk)
        /\ tasks[j].st = "done" /\ ~tasks[j].consumed
        /\ tasks[j].value \in {CONN_ERR, NO_PK}
        /\ ENABLED Collect(j)

----------------------------------------------------------------------------
(* C15 *)

\* C15: once every result is consumed, a table is in missing_column exactly
\* when some node reported NO_COLUMN for it and in missing_pk exactly when
\* some node reported NO_PK for it; and no step removes a table from either
\* list.
C15_MissingLists ==
    /\ [](AllConsumed =>
            \A t \in Range(tables) :
                /\ t \in Range(missing_column) <=>
                     \E n \in Range(hosts) : Outcome(t, n) = NO_COLUMN
                /\ t \in Range(missing_pk) <=>
                     \E n \in Range(hosts) : Outcome(t, n) = NO_PK)
    /\ [][/\ Range(missing_column) \subseteq Range(missing_column')
          /\ Range(missing_pk) \subseteq Range(missing_pk')]_vars

\* Every result consumed: a table is in both lists, one node having reported
\* NO_COLUMN for it and another node NO_PK
C15_Witness ==
    /\ AllConsumed
    /\ \E t \in Range(missing_column) \cap Range(missing_pk), n, m \in Range(hosts) :
        Outcome(t, n) = NO_COLUMN /\ Outcome(t, m) = NO_PK

----------------------------------------------------------------------------
(* C16 *)

\* C16 as stated: every pair of a discovered table and a node is submitted
\* exactly once, and when the run is over the collection loop has consumed as
\* many results as there are pairs.
C16_EveryPairConsumedOnce ==
    (pc \notin {"discover", "fatal", "get_tables", "submit"} /\ ~ENABLED Next) =>
        /\ \A t \in Range(tables), n \in Range(hosts) :
            Cardinality({i \in DOMAIN tasks : tasks[i].table = t /\ tasks[i].host = n}) = 1
        /\ Cardinality({i \in DOMAIN tasks : tasks[i].consumed}) = Len(tables) * Len(hosts)

----------------------------------------------------------------------------
(* C17 *)

\* The threads that wait for the lock, and the thread that holds it
WaitsForLock(th) ==
    IF th = 0 THEN pc \in {"discover_warn", "scanned_warn"}
    ELSE th \in DOMAIN tasks /\ tasks[th].st \in {"warn_conn", "warn_query"}
HoldsLock(th) ==
    IF th = 0 THEN pc \in {"discover_print", "scanned_print"}
    ELSE th \in DOMAIN tasks /\ tasks[th].st \in {"print_conn", "print_query"}

\* C17: the holder of the print lock is a thread inside one of the print
\* blocks, where it neither runs a database call nor waits for a lock, and it
\* is the only thread there; as long as the lock stays held its holder does
\* nothing but print, so that its next step is the release; and the run never
\* stops with a thread waiting: it stops only where main() ends.
C17_LockNotHeldAcrossIO ==
    /\ [](/\ lock \in {Free, 0} \cup DOMAIN tasks
          /\ \A th \in {0} \cup DOMAIN tasks : HoldsLock(th) <=> lock = th
          /\ lock # Free => ~WaitsForLock(lock) /\ ENABLED Release(lock)
          /\ ~ENABLED NextLock => pc \in {"done", "fatal", "crashed"})
    /\ [][lock # Free =>
            /\ lock' \in {lock, Free}
            /\ lock' = lock =>
                /\ lock = 0 => pc' = pc
                /\ lock # 0 => tasks'[lock] = tasks[lock]]_vars

\* A worker holds the lock inside the except clause of scan_table, its
\* connection still open, while the main thread waits for the lock to print
\* the line of the other probe
C17_Witness ==
    /\ pc = "scanned_warn"
    /\ cur \in DOMAIN tasks
    /\ \E i \in DOMAIN tasks :
        /\ i # cur
        /\ lock = i
        /\ tasks[i].st = "print_query"
        /\ i \in conns
        /\ ~ENABLED ScannedLock

----------------------------------------------------------------------------
(* C18 *)

\* C18 as stated: in the report row of a table, the cell of a node is flagged
\* red exactly when the row's mismatch verdict is true and the outcome of that
\* node is a fetched value.
C18_FlaggedIffMismatchAndValue ==
    pc = "done" =>
        \A k \in DOMAIN report.rows, i \in DOMAIN hosts :
            Flagged(report.rows[k].cells[i]) <=>
                /\ report.rows[k].mismatch
                /\ IsValue(Outcome(report.rows[k].table, hosts[i]))

----------------------------------------------------------------------------
(* C19 *)

\* C19 as stated: a probe that returned CONN_ERR could not connect and read
\* nothing from the node; a probe that connected to a table with neither a
\* primary key nor the filter column returned NO_PK; a probe that returned
\* NO_COLUMN resolved the primary key of a table without the filter column
\* and carries its name; a probe that returned ERR met an error of the
\* windowed query.
C19_FirstFailingStep ==
    \A i \in DOMAIN tasks :
        tasks[i].st = "done" =>
            LET info == TableInfo(db, tasks[i].host, tasks[i].table)
                v == tasks[i].value
            IN /\ v = CONN_ERR =>
                    /\ CanFail(tasks[i].host)
                    /\ tasks[i].pk_col = None
                    /\ tasks[i].last_id = None
               /\ (v # CONN_ERR /\ ~Truthy(info.pk) /\ ~info.has_col) => v = NO_PK
               /\ v = NO_COLUMN =>
                    /\ ~info.has_col
                    /\ Truthy(tasks[i].pk_col)
                    /\ tasks[i].pk_col = info.pk
               /\ v = ERR => info.fault = "query"

----------------------------------------------------------------------------
(* C20 *)

\* Every submitted probe has returned and the collection loop has folded its
\* result in
AllReduced ==
    /\ Len(tasks) = Len(hosts) * Len(tables)
    /\ \A i \in DOMAIN tasks : tasks[i].st = "done" /\ tasks[i].consumed
    /\ Running(tasks) = {}
    /\ conns = {}

\* C20: the report is built in one step, taken only when every submitted probe
\* has returned and its result has been reduced; until then no row and no
\* summary list exists, and the report is the one of the completely reduced
\* results.
C20_ReportAfterAllReduced ==
    /\ [](/\ pc # "done" => report = Report(EmptyR, <<>>)
          /\ pc = "done" => AllReduced /\ report = Report(R, hosts))
    /\ [][report' # report => AllReduced /\ UNCHANGED tasks]_vars

\* The report is printed for several probes, one of which could not connect
\* while another one fetched a value
C20_Witness ==
    /\ pc = "done"
    /\ report.rows # <<>>
    /\ \E i, j \in DOMAIN tasks :
        tasks[i].value = CONN_ERR /\ IsValue(tasks[j].value)

====
